---- MODULE Spec2Model ----
(***************************************************************************)
(* stm2kicad (extractor.ts): the pin layout engine.  The three renderers   *)
(* (SipRenderer, DipRenderer, QfpRenderer), Block, render_symbol and the   *)
(* script's top-level statements, as a state machine.                      *)
(*                                                                         *)
(* Numbers: every coordinate the script computes is an integer for the     *)
(* geometry of lines 451-458 (pin_spacing is even), except the dual-row    *)
(* renderer's side-local index, which is a multiple of 1/2 and is kept     *)
(* doubled (side_index2).  Strings that are only compared for order (pin   *)
(* name, pin label) are integer codes whose order is the strings' order;   *)
(* label 0 is an undefined label.                                          *)
(***************************************************************************)
EXTENDS Integers, Sequences, FiniteSets, TLC

VARIABLES pc, options, cubefile, blocks, block_pins, renderer, out, file

vars == <<pc, options, cubefile, blocks, block_pins, renderer, out, file>>

(* ------------------------------ bounds -------------------------------- *)

\* pins of a dataset read by load_cubefile (Spec)
MaxPins == 2
\* pins of a dataset read by load_cubefile (SpecMain)
MaxMainPins == 4
\* pins handed to a single-row / dual-row renderer (SpecIp)
MaxIpPins == 4
\* distinct pin names and labels (SpecIp)
MaxName == 2
MaxLabel == 1
\* total_pins / 4 of a quad-flat renderer (SpecQfp)
MaxQuarter == 3
\* populated pins of a quad-flat renderer (SpecQfp)
MaxPopulated == 3
\* the package of 40 pins of the accurate-mode example (SpecQfp)
ExampleTotalPins == 40

\* pins offered to Block.add, and calls of Block.add (SpecBlock)
MaxBlockPins == 2
MaxAdds == 3

(* ------------------------- program constants -------------------------- *)

pin_spacing == 100
pin_length == 200
margin_qfp == 8
margin_ip == 1
width_sip == 800
width_dip == 1600

ACCURATE == 1
COMPACT == 2
CRUSHED == 3

LEFT == 0
BOTTOM == 1
RIGHT == 2
TOP == 3

IO == 1
POWER == 2
CONFIG == 3
UNASSIGNED == 4

QfpModes == {ACCURATE, COMPACT, CRUSHED}
\* the choices of --style (line 465)
IoStyles == {"accurate", "compact", "crushed", "sip"}
\* style_map (lines 468-473) on the quad-flat styles
StyleMode(style) ==
    CASE style = "accurate" -> ACCURATE
      [] style = "compact" -> COMPACT
      [] style = "crushed" -> CRUSHED
ConfigTypes == {"Power", "I/O", "Reset"}
BlockNames == <<"io_block", "power_block", "config_block", "unassigned_block">>
BlockIds == {IO, POWER, CONFIG, UNASSIGNED}

(* ------------------------------ helpers ------------------------------- *)

Max(S) == CHOOSE x \in S : \A y \in S : y <= x

RECURSIVE Flatten(_)
Flatten(ss) == IF ss = <<>> THEN <<>> ELSE Head(ss) \o Flatten(Tail(ss))

RECURSIVE SetToSortedSeq(_)
SetToSortedSeq(S) ==
    IF S = {} THEN <<>>
    ELSE LET m == CHOOSE x \in S : \A y \in S : x <= y
         IN  <<m>> \o SetToSortedSeq(S \ {m})

\* lodash compareAscending on one key: an undefined value (label 0) sorts
\* after every defined one.
LabelRank(pin) ==
    IF pin.label = 0 THEN MaxLabel + MaxPins + MaxMainPins + MaxIpPins + 1 ELSE pin.label

\* whether pin a sorts strictly before pin b under the iteratee list `by`
Before(by, a, b) ==
    IF by = "position" THEN a.position < b.position
    ELSE \/ a.name < b.name
         \/ a.name = b.name /\ LabelRank(a) < LabelRank(b)

RECURSIVE Insert(_, _, _)
Insert(by, x, s) ==
    IF s = <<>> THEN <<x>>
    ELSE IF Before(by, x, Head(s)) THEN <<x>> \o s
    ELSE <<Head(s)>> \o Insert(by, x, Tail(s))

RECURSIVE SortInto(_, _, _)
SortInto(by, s, acc) ==
    IF s = <<>> THEN acc ELSE SortInto(by, Tail(s), Insert(by, Head(s), acc))

\* _.sortBy: ascending and stable (equal keys keep their input order)
sortBy(by, s) == SortInto(by, s, <<>>)

(* ------------------------------ output -------------------------------- *)

\* `S -hw -hh hw hh unit 1 10 f`
RectLine(r) ==
    [kind |-> "S", x1 |-> -r.half_width, y1 |-> -r.half_height,
     x2 |-> r.half_width, y2 |-> r.half_height, unit |-> r.unit]

\* `X display_name position x -y pin_length dir 50 50 unit 1 elec_type`
PinLine(r, pin, pos) ==
    [kind |-> "X", name |-> pin.name, label |-> pin.label,
     position |-> pin.position, x |-> pos.x, y |-> -pos.y,
     length |-> pin_length, dir |-> pos.dir, unit |-> r.unit,
     elec_type |-> pin.elec_type]

NoRenderer == [kind |-> "none"]

NewRenderer(kind, unit, total_pins, mode) ==
    [kind |-> kind, unit |-> unit, total_pins |-> total_pins, mode |-> mode,
     pins |-> <<>>, half_inner_width |-> 0, half_inner_height |-> 0,
     half_width |-> 0, half_height |-> 0]

(* ---------------------------- SipRenderer ----------------------------- *)

SipCalcGeometry(r) ==
    LET hiw == width_sip \div 2
        hih == ((Len(r.pins) - 1) * pin_spacing) \div 2
    IN  [r EXCEPT !.half_inner_width = hiw,
                  !.half_inner_height = hih,
                  !.half_width = hiw,
                  !.half_height = hih + pin_spacing * margin_ip]

SipSetPins(r, pins) ==
    SipCalcGeometry([r EXCEPT !.pins = sortBy("name_label", pins)])

\* SipGetPosition without the centring on half_inner_height
SipGetPositionFromZero(r, index) ==
    [x |-> r.half_width + pin_length, y |-> pin_spacing * index, dir |-> "L"]

\* index is 0-based
SipGetPosition(r, index) ==
    [x |-> r.half_width + pin_length,
     y |-> -r.half_inner_height + pin_spacing * index,
     dir |-> "L"]

SipRenderPins(r) ==
    [k \in 1..Len(r.pins) |-> PinLine(r, r.pins[k], SipGetPosition(r, k - 1))]

(* ---------------------------- DipRenderer ----------------------------- *)

DipCalcGeometry(r) ==
    LET hiw == width_dip \div 2
        \* Math.ceil(n / 2) - 1
        hih == ((((Len(r.pins) + 1) \div 2) - 1) * pin_spacing) \div 2
    IN  [r EXCEPT !.half_inner_width = hiw,
                  !.half_inner_height = hih,
                  !.half_width = hiw,
                  !.half_height = hih + pin_spacing * margin_ip]

DipSetPins(r, pins) ==
    DipCalcGeometry([r EXCEPT !.pins = sortBy("name_label", pins)])

\* Math.floor(index / (n / 2)): n / 2 is a multiple of 1/2
DipSide(n, index) == (2 * index) \div n

\* twice index % (n / 2): the remainder is a multiple of 1/2
DipSideIndex2(n, index) == (2 * index) % n

\* DipGetPosition with the two edges exchanged: [+1, -1][side]
DipGetPositionMirrored(r, index) ==
    LET n == Len(r.pins)
        side == DipSide(n, index)
        side_index2 == DipSideIndex2(n, index)
    IN  [x |-> (IF side = 0 THEN 1 ELSE -1) * (r.half_width + pin_length),
         y |-> -r.half_inner_height + (pin_spacing * side_index2) \div 2,
         dir |-> IF side = 0 THEN "R" ELSE "L"]

DipGetPosition(r, index) ==
    LET n == Len(r.pins)
        side == DipSide(n, index)
        side_index2 == DipSideIndex2(n, index)
    IN  [x |-> (IF side = 0 THEN -1 ELSE 1) * (r.half_width + pin_length),
         y |-> -r.half_inner_height + (pin_spacing * side_index2) \div 2,
         dir |-> IF side = 0 THEN "R" ELSE "L"]

DipRenderPins(r) ==
    [k \in 1..Len(r.pins) |-> PinLine(r, r.pins[k], DipGetPosition(r, k - 1))]

(* ---------------------------- QfpRenderer ----------------------------- *)

Thrown == [kind |-> "throw"]

\* QfpNew without the check of line 206
QfpNewUnchecked(unit, total_pins, mode) ==
    NewRenderer("qfp", unit, total_pins, mode)

\* the constructor: throws unless total_pins is a multiple of 4
QfpNew(unit, total_pins, mode) ==
    IF total_pins % 4 # 0 THEN Thrown
    ELSE NewRenderer("qfp", unit, total_pins, mode)

\* the groupBy key of set_pins: Math.floor((position - 1) / (total_pins / 4))
SideKey(r, pin) == (pin.position - 1) \div (r.total_pins \div 4)

\* _.groupBy(...).values(): one array per key, in ascending key order (the
\* keys are array-index-like property names), each in the input's order
groupBy(r, sorted) ==
    LET keys == SetToSortedSeq({SideKey(r, sorted[k]) : k \in 1..Len(sorted)})
    IN  [g \in 1..Len(keys) |->
            SelectSeq(sorted, LAMBDA p : SideKey(r, p) = keys[g])]

AccurateSlots(r, pins) ==
    [k \in 1..Len(pins) |-> (pins[k].position - 1) % (r.total_pins \div 4)]

\* the reduce of the COMPACT case, from the accumulator [xs, next]
RECURSIVE CompactReduce(_, _, _)
CompactReduce(pins, xs, next) ==
    IF pins = <<>> THEN xs
    ELSE LET pin == Head(pins)
             last == IF Len(xs) > 0 THEN xs[Len(xs)] ELSE 0
         IN  CompactReduce(Tail(pins),
                           Append(xs, last + (IF pin.position = next THEN 1 ELSE 2)),
                           pin.position + 1)

\* CompactSlots without the gap rule: every pin one slot after the last
CompactSlotsNoGap(pins) == [k \in 1..Len(pins) |-> k]

CompactSlots(pins) ==
    IF Len(pins) = 0 THEN <<>> ELSE CompactReduce(pins, <<>>, pins[1].position)

\* CrushedSlots counting from 1
CrushedSlotsFromOne(pins) == [k \in 1..Len(pins) |-> k]

CrushedSlots(pins) == [k \in 1..Len(pins) |-> k - 1]

\* the mode is one of QfpMode here (style_map, lines 468-478), so the
\* default branch of the switch is not reached
position_pins_on_side(r, pins) ==
    CASE r.mode = ACCURATE -> AccurateSlots(r, pins)
      [] r.mode = COMPACT  -> CompactSlots(pins)
      [] r.mode = CRUSHED  -> CrushedSlots(pins)

\* _(sides).map(side => max position_on_side of the side ?? 0).max() ?? 0
MaxPinIndex(r, sides) ==
    Max({ LET S == {r.pins[k].position_on_side :
                        k \in {j \in 1..Len(r.pins) : r.pins[j].side = s}}
          IN  IF S = {} THEN 0 ELSE Max(S) : s \in sides })

\* QfpCalcGeometry without the ACCURATE case: the populated slots decide
QfpCalcGeometryPopulated(r) ==
    LET hiw == (MaxPinIndex(r, {TOP, BOTTOM}) * pin_spacing) \div 2
        hih == (MaxPinIndex(r, {LEFT, RIGHT}) * pin_spacing) \div 2
    IN  [r EXCEPT !.half_inner_width = hiw,
                  !.half_inner_height = hih,
                  !.half_width = hiw + margin_qfp * pin_spacing,
                  !.half_height = hih + margin_qfp * pin_spacing]

QfpCalcGeometry(r) ==
    LET max_pin_index_h == IF r.mode = ACCURATE THEN r.total_pins \div 4 - 1
                           ELSE MaxPinIndex(r, {TOP, BOTTOM})
        max_pin_index_v == IF r.mode = ACCURATE THEN r.total_pins \div 4 - 1
                           ELSE MaxPinIndex(r, {LEFT, RIGHT})
        hiw == (max_pin_index_h * pin_spacing) \div 2
        hih == (max_pin_index_v * pin_spacing) \div 2
    IN  [r EXCEPT !.half_inner_width = hiw,
                  !.half_inner_height = hih,
                  !.half_width = hiw + margin_qfp * pin_spacing,
                  !.half_height = hih + margin_qfp * pin_spacing]

\* side: the index of the group among the groups present (side_index of map)
QfpPlace(r, groups) ==
    [g \in 1..Len(groups) |->
        LET slots == position_pins_on_side(r, groups[g])
        IN  [k \in 1..Len(groups[g]) |->
                groups[g][k] @@ [side |-> g - 1, position_on_side |-> slots[k]]]]

QfpSetPins(r, pins) ==
    QfpCalcGeometry(
        [r EXCEPT !.pins = Flatten(QfpPlace(r, groupBy(r, sortBy("position", pins))))])

QfpOrigin == << <<-1, -1>>, <<-1, 1>>, <<1, 1>>, <<1, -1>> >>
QfpDirection == << <<0, 1>>, <<1, 0>>, <<0, -1>>, <<-1, 0>> >>
QfpDirChar == <<"R", "U", "L", "D">>

QfpGetPosition(r, pin) ==
    LET half_inner_size == <<r.half_inner_width, r.half_inner_height>>
        origin == QfpOrigin[pin.side + 1]
        direction == QfpDirection[pin.side + 1]
        coords == [i \in 1..2 |->
            half_inner_size[i] * origin[i]
            + pin.position_on_side * direction[i] * pin_spacing
            + (IF direction[i] # 0 THEN 0 ELSE origin[i])
                * (margin_qfp * pin_spacing + pin_length)]
    IN  [x |-> coords[1], y |-> coords[2], dir |-> QfpDirChar[pin.side + 1]]

QfpRenderPins(r) ==
    [k \in 1..Len(r.pins) |-> PinLine(r, r.pins[k], QfpGetPosition(r, r.pins[k]))]

(* ------------------------------- Block -------------------------------- *)

\* Renderer.set_pins / render_pins of the renderer's class
SetPins(r, pins) ==
    CASE r.kind = "sip" -> SipSetPins(r, pins)
      [] r.kind = "dip" -> DipSetPins(r, pins)
      [] r.kind = "qfp" -> QfpSetPins(r, pins)

RenderPins(r) ==
    CASE r.kind = "sip" -> SipRenderPins(r)
      [] r.kind = "dip" -> DipRenderPins(r)
      [] r.kind = "qfp" -> QfpRenderPins(r)

\* Block.add on the pair st = [pins, block_pins]: pin i (an index into the
\* pin objects) gets block b as its owner and is pushed on b's list
BlockAdd(st, b, i) ==
    [pins |-> [st.pins EXCEPT ![i].block = b],
     block_pins |-> [st.block_pins EXCEPT ![b] = Append(@, i)]]

\* Block.render, first statement: set_pins of the pins that still point here
BlockSetPins(b, r, pins, bpins) ==
    LET mine == SelectSeq(bpins, LAMBDA i : pins[i].block = b)
    IN  SetPins(r, [k \in 1..Len(mine) |-> pins[mine[k]]])

\* BlockRenderLines with a block that holds no pin skipped
BlockRenderLinesNonEmpty(r) ==
    IF r.pins = <<>> THEN <<>> ELSE <<RectLine(r)>> \o RenderPins(r)

\* Block.render, the lines pushed: render_block, then render_pins
BlockRenderLines(r) == <<RectLine(r)>> \o RenderPins(r)

(* --------------------------- render_symbol ---------------------------- *)

\* classify with the third condition read as (assigned || !separate) && !drop
classify_precedence(pin, opts) ==
    IF opts.separate_power /\ pin.config_type = "Power"
    THEN [elec_type |-> "W", block |-> "power_block"]
    ELSE IF opts.separate_config /\ pin.config_type # "I/O"
    THEN [elec_type |-> "B", block |-> "config_block"]
    ELSE IF (pin.assigned \/ ~opts.separate_unassigned) /\ ~opts.drop_unassigned
    THEN [elec_type |-> "P", block |-> "io_block"]
    ELSE IF opts.separate_unassigned /\ ~opts.drop_unassigned
    THEN [elec_type |-> "U", block |-> "unassigned_block"]
    ELSE [elec_type |-> pin.elec_type, block |-> "none"]

\* lines 404-416: the branch taken for one pin
classify(pin, opts) ==
    IF opts.separate_power /\ pin.config_type = "Power"
    THEN [elec_type |-> "W", block |-> "power_block"]
    ELSE IF opts.separate_config /\ pin.config_type # "I/O"
    THEN [elec_type |-> "B", block |-> "config_block"]
    ELSE IF pin.assigned \/ (~opts.separate_unassigned /\ ~opts.drop_unassigned)
    THEN [elec_type |-> "P", block |-> "io_block"]
    ELSE IF opts.separate_unassigned /\ ~opts.drop_unassigned
    THEN [elec_type |-> "U", block |-> "unassigned_block"]
    ELSE [elec_type |-> pin.elec_type, block |-> "none"]

\* the loop of lines 401-417 from pin i on
RECURSIVE ClassifyFrom(_, _, _, _)
ClassifyFrom(st, i, opts, blks) ==
    IF i > Len(st.pins) THEN st
    ELSE LET c == classify(st.pins[i], opts)
             st1 == [st EXCEPT !.pins[i].elec_type = c.elec_type]
             st2 == IF c.block = "none" THEN st1 ELSE BlockAdd(st1, blks[c.block], i)
         IN  ClassifyFrom(st2, i + 1, opts, blks)

\* lines 393-399: the four blocks, each instance once, at its first place
RECURSIVE BlockOrderFrom(_, _, _)
BlockOrderFrom(blks, k, acc) ==
    IF k > Len(BlockNames) THEN acc
    ELSE LET b == blks[BlockNames[k]]
         IN  BlockOrderFrom(blks, k + 1,
                IF \E j \in 1..Len(acc) : acc[j] = b THEN acc ELSE Append(acc, b))

\* block_order without the indexOf test of line 396
BlockOrderNoDedup(blks) == [k \in 1..Len(BlockNames) |-> blks[BlockNames[k]]]

block_order(blks) == BlockOrderFrom(blks, 1, <<>>)

\* lines 427-429: each block of the order rendered in turn
RECURSIVE RenderBlocks(_, _, _, _)
RenderBlocks(order, rs, st, lines) ==
    IF order = <<>> THEN [renderer |-> rs, lines |-> lines]
    ELSE LET b == Head(order)
             r == BlockSetPins(b, rs[b], st.pins, st.block_pins[b])
         IN  RenderBlocks(Tail(order), [rs EXCEPT ![b] = r], st,
                          lines \o BlockRenderLines(r))

HeaderLines(units) ==
    << [kind |-> "EESchema-LIBRARY"], [kind |-> "DEF", units |-> units],
       [kind |-> "F0"], [kind |-> "F1"], [kind |-> "$FPLIST"],
       [kind |-> "footprint"], [kind |-> "$ENDFPLIST"], [kind |-> "DRAW"] >>

FooterLines == << [kind |-> "ENDDRAW"], [kind |-> "ENDDEF"], [kind |-> ""] >>

(* ------------------------------- state -------------------------------- *)

\* a Pin as load_cubefile builds it (line 358); block 0 is an undefined owner
NewPin(position, name, label, config_type, assigned) ==
    [position |-> position, name |-> name, label |-> label,
     config_type |-> config_type, assigned |-> assigned,
     elec_type |-> "U", block |-> 0]

\* the options object of lines 445-459 with io_style set from --style
MainOptions(style) ==
    [io_style |-> style, separate_config |-> TRUE, separate_power |-> TRUE,
     separate_unassigned |-> TRUE, drop_unassigned |-> FALSE]

AllOptions ==
    [io_style : IoStyles, separate_config : BOOLEAN, separate_power : BOOLEAN,
     separate_unassigned : BOOLEAN, drop_unassigned : BOOLEAN]

\* the record of line 488: every name bound to its own instance
MainBlocks ==
    [io_block |-> IO, power_block |-> POWER, config_block |-> CONFIG,
     unassigned_block |-> UNASSIGNED]

\* the Blocks records a caller of render_symbol can pass: each name bound to
\* its own instance or to the instance of an earlier name
BlockWirings ==
    { w \in [io_block : {IO}, power_block : {IO, POWER},
             config_block : {IO, POWER, CONFIG}, unassigned_block : BlockIds] :
        /\ w.config_block \in {w.io_block, w.power_block, CONFIG}
        /\ w.unassigned_block \in {w.io_block, w.power_block, w.config_block, UNASSIGNED} }

\* the datasets load_cubefile returns: positions 1..n in document order, a
\* label only on an assigned pin (lines 356, 361-374)
Datasets(max) ==
    UNION { { [p \in 1..n |->
                NewPin(p, n + 1 - p, IF a[p] THEN p ELSE 0, t[p], a[p])] :
              t \in [1..n -> ConfigTypes], a \in [1..n -> BOOLEAN] } :
            n \in 0..max }

Start(at, opts, wiring) ==
    /\ pc = at
    /\ options = opts
    /\ blocks = wiring
    /\ cubefile = [loaded |-> FALSE, pins |-> <<>>]
    /\ block_pins = [b \in BlockIds |-> <<>>]
    /\ renderer = [b \in BlockIds |-> NoRenderer]
    /\ out = <<>>
    /\ file = [written |-> FALSE, content |-> <<>>]

(* ----------------------- the script's statements ---------------------- *)

\* line 485: const cubefile = load_cubefile(input, database)
LoadCubefile(max) ==
    /\ pc = "load"
    /\ \E d \in Datasets(max) : cubefile' = [loaded |-> TRUE, pins |-> d]
    /\ pc' = IF renderer[IO].kind = "none" THEN "create" ELSE "render"
    /\ UNCHANGED <<options, blocks, block_pins, renderer, out, file>>

\* lines 435-441; reading cubefile before line 485 has run throws
create_io_block(opts, cf) ==
    IF opts.io_style = "sip" THEN NewRenderer("sip", IO, 0, 0)
    ELSE IF ~cf.loaded THEN Thrown
    ELSE QfpNew(IO, Len(cf.pins), StyleMode(opts.io_style))

\* lines 480-483: the four blocks and their renderers
CreateBlocks ==
    /\ pc = "create"
    /\ LET io == create_io_block(options, cubefile)
       IN  IF io.kind = "throw"
           THEN /\ pc' = "aborted"
                /\ UNCHANGED renderer
           ELSE /\ pc' = IF cubefile.loaded THEN "render" ELSE "load"
                /\ renderer' = [b \in BlockIds |->
                       CASE b = IO -> io
                         [] b = POWER -> NewRenderer("sip", POWER, 0, 0)
                         [] b = CONFIG -> NewRenderer("sip", CONFIG, 0, 0)
                         [] b = UNASSIGNED -> NewRenderer("dip", UNASSIGNED, 0, 0)]
    /\ UNCHANGED <<options, cubefile, blocks, block_pins, out, file>>

\* lines 487-488: render_symbol(symbol, options, blocks)
RenderSymbol ==
    /\ pc = "render"
    /\ LET order == block_order(blocks)
           st == ClassifyFrom([pins |-> cubefile.pins, block_pins |-> block_pins],
                              1, options, blocks)
           drawn == RenderBlocks(order, renderer, st, <<>>)
       IN  /\ cubefile' = [cubefile EXCEPT !.pins = st.pins]
           /\ block_pins' = st.block_pins
           /\ renderer' = drawn.renderer
           /\ out' = out \o HeaderLines(Len(order)) \o drawn.lines \o FooterLines
    /\ pc' = "write"
    /\ UNCHANGED <<options, blocks, file>>

\* line 490: fs.writeFileSync(output, symbol.join('\n'))
WriteFile ==
    /\ pc = "write"
    /\ file' = [written |-> TRUE, content |-> out]
    /\ pc' = "done"
    /\ UNCHANGED <<options, cubefile, blocks, block_pins, renderer, out>>

(* -------------------- a block driven on its own ----------------------- *)

\* the block under construction or rendering when one block is driven alone
TheBlock == IF renderer[UNASSIGNED].kind = "none" THEN IO ELSE UNASSIGNED

QfpTotals == 1..(4 * MaxQuarter) \cup {ExampleTotalPins}

\* the subsets of 1..n of at most k elements
RECURSIVE SubsetsUpTo(_, _)
SubsetsUpTo(n, k) ==
    IF n = 0 \/ k = 0 THEN {{}}
    ELSE SubsetsUpTo(n - 1, k) \cup {S \cup {n} : S \in SubsetsUpTo(n - 1, k - 1)}

\* Block.add of every pin of the sequence, in order
RECURSIVE AddAll(_, _, _)
AddAll(st, b, i) ==
    IF i > Len(st.pins) THEN st ELSE AddAll(BlockAdd(st, b, i), b, i + 1)

\* new Block(new QfpRenderer(geometry, Unit.IO, total_pins, mode)), line 439
QfpConstruct ==
    /\ pc = "new_qfp"
    /\ \E total \in QfpTotals, mode \in QfpModes :
        LET r == QfpNew(IO, total, mode)
        IN  IF r.kind = "throw"
            THEN pc' = "aborted" /\ UNCHANGED renderer
            ELSE pc' = "add_qfp" /\ renderer' = [renderer EXCEPT ![IO] = r]
    /\ UNCHANGED <<options, cubefile, blocks, block_pins, out, file>>

\* Block.add of a population of the package, highest position first
QfpAddPins ==
    /\ pc = "add_qfp"
    /\ \E S \in SubsetsUpTo(renderer[IO].total_pins, MaxPopulated) :
        LET asc == SetToSortedSeq(S)
            n == Len(asc)
            pins == [k \in 1..n |->
                        NewPin(asc[n + 1 - k], asc[n + 1 - k], 0, "I/O", TRUE)]
            st == AddAll([pins |-> pins, block_pins |-> block_pins], IO, 1)
        IN  /\ cubefile' = [loaded |-> TRUE, pins |-> st.pins]
            /\ block_pins' = st.block_pins
    /\ pc' = "render_block"
    /\ UNCHANGED <<options, blocks, renderer, out, file>>

\* new Block(new SipRenderer(...)) / new Block(new DipRenderer(...)),
\* lines 481-483
IpConstruct ==
    /\ pc = "new_ip"
    /\ \/ renderer' = [renderer EXCEPT ![IO] = NewRenderer("sip", IO, 0, 0)]
       \/ renderer' = [renderer EXCEPT ![UNASSIGNED] =
                           NewRenderer("dip", UNASSIGNED, 0, 0)]
    /\ pc' = "add_ip"
    /\ UNCHANGED <<options, cubefile, blocks, block_pins, out, file>>

\* Block.add of n pins with any names and labels
IpAddPins ==
    /\ pc = "add_ip"
    /\ \E n \in 0..MaxIpPins :
       \E nm \in [1..n -> 1..MaxName], lb \in [1..n -> 0..MaxLabel] :
        LET pins == [p \in 1..n |-> NewPin(p, nm[p], lb[p], "I/O", lb[p] # 0)]
            st == AddAll([pins |-> pins, block_pins |-> block_pins], TheBlock, 1)
        IN  /\ cubefile' = [loaded |-> TRUE, pins |-> st.pins]
            /\ block_pins' = st.block_pins
    /\ pc' = "render_block"
    /\ UNCHANGED <<options, blocks, renderer, out, file>>

\* Block.render(out), lines 298-303
BlockRender ==
    /\ pc = "render_block"
    /\ LET b == TheBlock
           r == BlockSetPins(b, renderer[b], cubefile.pins, block_pins[b])
       IN  /\ renderer' = [renderer EXCEPT ![b] = r]
           /\ out' = out \o BlockRenderLines(r)
    /\ pc' = "done"
    /\ UNCHANGED <<options, cubefile, blocks, block_pins, file>>

(* ------------------- Block.add in any order ------------------------- *)

\* the calls of Block.add made so far
Adds == Len(Flatten([k \in 1..Len(BlockNames) |-> block_pins[k]]))

\* lines 480-483 with the single-row IO block, and the pins to hand out
BlocksConstruct ==
    /\ pc = "new_blocks"
    /\ renderer' = [b \in BlockIds |->
           IF b = UNASSIGNED THEN NewRenderer("dip", b, 0, 0)
           ELSE NewRenderer("sip", b, 0, 0)]
    /\ \E n \in 1..MaxBlockPins :
        cubefile' = [loaded |-> TRUE,
                     pins |-> [p \in 1..n |-> NewPin(p, p, 0, "I/O", TRUE)]]
    /\ pc' = "add_any"
    /\ UNCHANGED <<options, blocks, block_pins, out, file>>

\* one call block.add(pin), lines 293-296, for any block and any pin
BlockAddAny ==
    /\ pc = "add_any"
    /\ Adds < MaxAdds
    /\ \E b \in BlockIds, i \in 1..Len(cubefile.pins) :
        LET st == BlockAdd([pins |-> cubefile.pins, block_pins |-> block_pins], b, i)
        IN  /\ cubefile' = [cubefile EXCEPT !.pins = st.pins]
            /\ block_pins' = st.block_pins
    /\ UNCHANGED <<pc, options, blocks, renderer, out, file>>

\* lines 427-429 over the four blocks: block.render(out) for each
BlocksRender ==
    /\ pc = "add_any"
    /\ LET st == [pins |-> cubefile.pins, block_pins |-> block_pins]
           drawn == RenderBlocks(block_order(blocks), renderer, st, <<>>)
       IN  /\ renderer' = drawn.renderer
           /\ out' = out \o drawn.lines
    /\ pc' = "done"
    /\ UNCHANGED <<options, cubefile, blocks, block_pins, file>>

(* --------------------------- specifications --------------------------- *)

\* create_io_block, the Block constructors, render_symbol and the write,
\* driven with the dataset read first, for every option set and every wiring
\* of the four block names
Init == \E o \in AllOptions, w \in BlockWirings : Start("load", o, w)

Next == LoadCubefile(MaxPins) \/ CreateBlocks \/ RenderSymbol \/ WriteFile

Spec == Init /\ [][Next]_vars

\* the script's statements in the order of lines 480-490
InitMain == \E s \in IoStyles : Start("create", MainOptions(s), MainBlocks)

NextMain == LoadCubefile(MaxMainPins) \/ CreateBlocks \/ RenderSymbol \/ WriteFile

SpecMain == InitMain /\ [][NextMain]_vars

\* a quad-flat block driven alone: construct, add, render
InitQfp == Start("new_qfp", MainOptions("crushed"), MainBlocks)

NextQfp == QfpConstruct \/ QfpAddPins \/ BlockRender

SpecQfp == InitQfp /\ [][NextQfp]_vars

\* a single-row or dual-row block driven alone: construct, add, render
InitIp == Start("new_ip", MainOptions("sip"), MainBlocks)

NextIp == IpConstruct \/ IpAddPins \/ BlockRender

SpecIp == InitIp /\ [][NextIp]_vars

\* four blocks, Block.add called in any order, then every block rendered
InitBlock == Start("new_blocks", MainOptions("sip"), MainBlocks)

NextBlock == BlocksConstruct \/ BlockAddAny \/ BlocksRender

SpecBlock == InitBlock /\ [][NextBlock]_vars

(* ------------------------------- claims ------------------------------- *)

\* render_symbol has returned
Rendered == pc \in {"write", "done"}

Pins == cubefile.pins

\* how many times pin i is on the list of block b
Occurrences(b, i) ==
    Cardinality({k \in 1..Len(block_pins[b]) : block_pins[b][k] = i})

\* the instances the four names are bound to
Wired == {blocks[BlockNames[k]] : k \in 1..Len(BlockNames)}

\* the first matching rule of section 4.5 for a pin, 5 when none matches
RuleOf(pin) ==
    CASE options.separate_power /\ pin.config_type = "Power" -> 1
      [] OTHER ->
    CASE options.separate_config /\ pin.config_type # "I/O" -> 2
      [] OTHER ->
    CASE pin.assigned
         \/ (~options.separate_unassigned /\ ~options.drop_unassigned) -> 3
      [] OTHER ->
    CASE options.separate_unassigned /\ ~options.drop_unassigned -> 4
      [] OTHER -> 5

RuleType == <<"W", "B", "P", "U">>
RuleBlock == <<"power_block", "config_block", "io_block", "unassigned_block">>

\* C1: once render_symbol has classified the pins, every pin carries the
\* elec_type and sits (once) on the list of the block of the first rule of
\* section 4.5 that matches it, under every option set; a pin that matches
\* none is on no list and has no owner; no pin is on two lists.
C1_FirstMatchingRule ==
    Rendered =>
        \A i \in 1..Len(Pins) :
            LET rule == RuleOf(Pins[i])
            IN  IF rule = 5
                THEN /\ Pins[i].block = 0
                     /\ \A b \in BlockIds : Occurrences(b, i) = 0
                ELSE LET b == blocks[RuleBlock[rule]]
                     IN  /\ Pins[i].elec_type = RuleType[rule]
                         /\ Pins[i].block = b
                         /\ Occurrences(b, i) = 1
                         /\ \A c \in BlockIds \ {b} : Occurrences(c, i) = 0

\* a run in which one pin was dropped (rule 5) and another went to the power
\* block (rule 1)
C1_Witness ==
    /\ pc = "done"
    /\ \E i, j \in 1..Len(Pins) : RuleOf(Pins[i]) = 5 /\ RuleOf(Pins[j]) = 1

\* the units of the rectangle lines of the output, in output order
RectUnits ==
    LET rects == SelectSeq(out, LAMBDA l : l.kind = "S")
    IN  [k \in 1..Len(rects) |-> rects[k].unit]

\* the place of the first of the four names bound to instance b
FirstName(b) ==
    CHOOSE k \in 1..Len(BlockNames) :
        /\ blocks[BlockNames[k]] = b
        /\ \A j \in 1..(k - 1) : blocks[BlockNames[j]] # b

LineAt(kind) == CHOOSE k \in 1..Len(out) : out[k].kind = kind

\* C6: the blocks are rendered in the order IO, power, config, unassigned,
\* an instance bound to several names once, at its first place; every block
\* line lies between DRAW and ENDDRAW; the unit count of the DEF line is the
\* number of distinct instances rendered.
C6_BlockOrder ==
    Rendered =>
        /\ \A k \in 1..Len(out) :
              out[k].kind \in {"S", "X"} => LineAt("DRAW") < k /\ k < LineAt("ENDDRAW")
        /\ {RectUnits[k] : k \in 1..Len(RectUnits)} = Wired
        /\ \A i, j \in 1..Len(RectUnits) :
              i < j => FirstName(RectUnits[i]) < FirstName(RectUnits[j])
        /\ out[LineAt("DEF")].units = Len(RectUnits)
        /\ out[LineAt("DEF")].units = Cardinality(Wired)

\* a run in which the four names are bound to two instances
C6_Witness ==
    /\ pc = "done"
    /\ blocks.power_block = blocks.io_block
    /\ blocks.unassigned_block = blocks.config_block
    /\ blocks.config_block # blocks.io_block
    /\ RectUnits = <<IO, CONFIG>>

LinesOf(b, kind) ==
    Cardinality({k \in 1..Len(out) : out[k].kind = kind /\ out[k].unit = b})

Owned(b) == {i \in 1..Len(Pins) : Pins[i].block = b}

\* C7 as stated: a block that classification gave no pin contributes no
\* rectangle line and no pin line.
C7_EmptyBlockSilent ==
    Rendered =>
        \A b \in Wired :
            Owned(b) = {} => LinesOf(b, "S") = 0 /\ LinesOf(b, "X") = 0

\* C7 amended: every distinct block instance is rendered, with or without
\* pins: it contributes exactly one rectangle line and one pin line per pin
\* it owns, so a block that was given no pin contributes its rectangle line
\* and no pin line.
C7_EveryBlockDrawn ==
    Rendered =>
        \A b \in Wired :
            /\ LinesOf(b, "S") = 1
            /\ LinesOf(b, "X") = Cardinality(Owned(b))

\* a run with pins in which some block was given none and drew its rectangle
C7_Witness ==
    /\ pc = "done"
    /\ Len(Pins) > 0
    /\ \E b \in Wired : Owned(b) = {} /\ LinesOf(b, "S") = 1

QfpStyle == options.io_style # "sip"

\* C8: when create_io_block constructs the quad-flat renderer with a pin
\* count that is no multiple of 4, the run aborts there: no renderer, no
\* line, and the file is never written; the file is only ever written with
\* a whole symbol.
C8_InvalidPinCountAborts ==
    /\ (QfpStyle /\ cubefile.loaded /\ Len(Pins) % 4 # 0 /\ pc \notin {"load", "create"})
          => /\ pc = "aborted"
             /\ renderer[IO].kind = "none"
             /\ out = <<>>
             /\ ~file.written
    /\ file.written
          => /\ pc = "done"
             /\ file.content = out
             /\ out # <<>>
             /\ out[Len(out)].kind = ""
             /\ out[Len(out) - 1].kind = "ENDDEF"

\* a run aborted by the constructor on a dataset of 1, 2 or 3 pins
C8_Witness ==
    /\ pc = "aborted"
    /\ QfpStyle
    /\ cubefile.loaded
    /\ Len(Pins) % 4 # 0

(* ---------------------- claims on a single block ---------------------- *)

\* the quad-flat block has been rendered
QfpDone == pc = "done" /\ renderer[IO].kind = "qfp"

QfpPins == renderer[IO].pins

Quarter == renderer[IO].total_pins \div 4

\* the side section 4.4 gives a physical position
TrueSide(pin) == (pin.position - 1) \div Quarter

\* C2 as stated: every pin's side is floor((position - 1) / (total_pins / 4)),
\* also when a side holds no pin, and the pins of a side are in ascending
\* position.
C2_SideIsQuadrant ==
    QfpDone =>
        /\ \A k \in 1..Len(QfpPins) : QfpPins[k].side = TrueSide(QfpPins[k])
        /\ \A i, j \in 1..Len(QfpPins) :
              (i < j /\ QfpPins[i].side = QfpPins[j].side)
                  => QfpPins[i].position < QfpPins[j].position

\* C3: in compact mode the renderer's pins are in ascending position, and a
\* pin that follows another of its side gets the slot after the previous
\* pin's when its position is the next one, and two slots after otherwise.
C3_CompactAdvance ==
    (QfpDone /\ renderer[IO].mode = COMPACT) =>
        \A k \in 1..(Len(QfpPins) - 1) :
            LET a == QfpPins[k]
                b == QfpPins[k + 1]
            IN  /\ a.position < b.position
                /\ TrueSide(a) = TrueSide(b) =>
                       b.position_on_side = a.position_on_side
                           + (IF b.position = a.position + 1 THEN 1 ELSE 2)

\* a side with a run of two pins followed by a gap
C3_Witness ==
    /\ QfpDone
    /\ renderer[IO].mode = COMPACT
    /\ Len(QfpPins) = 3
    /\ TrueSide(QfpPins[1]) = TrueSide(QfpPins[3])
    /\ QfpPins[2].position = QfpPins[1].position + 1
    /\ QfpPins[3].position > QfpPins[2].position + 2
    /\ QfpPins[3].position_on_side = QfpPins[1].position_on_side + 3

\* C4: in accurate mode every pin's slot is (position - 1) mod
\* (total_pins / 4), and both half inner dimensions are those of
\* total_pins / 4 - 1 slots, whatever positions are populated.
C4_AccurateSlots ==
    (QfpDone /\ renderer[IO].mode = ACCURATE) =>
        /\ \A k \in 1..Len(QfpPins) :
              QfpPins[k].position_on_side = (QfpPins[k].position - 1) % Quarter
        /\ 2 * renderer[IO].half_inner_width = (Quarter - 1) * pin_spacing
        /\ 2 * renderer[IO].half_inner_height = (Quarter - 1) * pin_spacing

\* the package of 40 pins with positions 21 and 30 populated: slots 0 and 9,
\* and 9 slots on both axes
C4_Witness ==
    /\ QfpDone
    /\ renderer[IO].mode = ACCURATE
    /\ renderer[IO].total_pins = 40
    /\ Len(QfpPins) = 2
    /\ QfpPins[1].position = 21 /\ QfpPins[1].position_on_side = 0
    /\ QfpPins[2].position = 30 /\ QfpPins[2].position_on_side = 9
    /\ renderer[IO].half_inner_width = 450
    /\ renderer[IO].half_inner_height = 450

\* C5: in crushed mode the slot of a pin is the number of populated pins of
\* its side at lower positions: the k pins of a side get 0 .. k-1.
C5_CrushedDense ==
    (QfpDone /\ renderer[IO].mode = CRUSHED) =>
        \A k \in 1..Len(QfpPins) :
            QfpPins[k].position_on_side =
                Cardinality({j \in 1..Len(QfpPins) :
                    /\ TrueSide(QfpPins[j]) = TrueSide(QfpPins[k])
                    /\ QfpPins[j].position < QfpPins[k].position})

\* three pins scattered over one side got slots 0, 1, 2
C5_Witness ==
    /\ QfpDone
    /\ renderer[IO].mode = CRUSHED
    /\ Len(QfpPins) = 3
    /\ TrueSide(QfpPins[1]) = TrueSide(QfpPins[3])
    /\ QfpPins[2].position > QfpPins[1].position + 1
    /\ QfpPins[3].position > QfpPins[2].position + 1
    /\ <<QfpPins[1].position_on_side, QfpPins[2].position_on_side,
         QfpPins[3].position_on_side>> = <<0, 1, 2>>

\* the pin lines of the output, in output order
PinLines == SelectSeq(out, LAMBDA l : l.kind = "X")

\* (name, label) of a before or equal to that of b; an undefined label last
NameLabelLeq(a, b) ==
    \/ a.name < b.name
    \/ /\ a.name = b.name
       /\ \/ b.label = 0
          \/ a.label # 0 /\ a.label <= b.label

SipDone == pc = "done" /\ renderer[IO].kind = "sip"

\* C9: the single-row renderer emits one pin line per pin, in ascending
\* (name, label) order, line i (from 0) at internal y =
\* -((N-1)*pin_spacing/2) + pin_spacing*i, x = width_sip/2 + pin_length,
\* direction L.
C9_SipProgression ==
    (SipDone /\ Len(Pins) >= 1) =>
        LET N == Len(Pins)
        IN  /\ Len(PinLines) = N
            /\ {PinLines[k].position : k \in 1..N} = {Pins[k].position : k \in 1..N}
            /\ \A i, j \in 1..N : i < j => NameLabelLeq(PinLines[i], PinLines[j])
            /\ \A i \in 0..(N - 1) :
                  /\ 2 * (-PinLines[i + 1].y) = -((N - 1) * pin_spacing) + 2 * pin_spacing * i
                  /\ PinLines[i + 1].x = width_sip \div 2 + pin_length
                  /\ PinLines[i + 1].dir = "L"

\* three or more pins added out of (name, label) order
C9_Witness ==
    /\ SipDone
    /\ Len(Pins) >= 3
    /\ Len(PinLines) = Len(Pins)
    /\ \E i, j \in 1..Len(Pins) : i < j /\ ~NameLabelLeq(Pins[i], Pins[j])

DipDone == pc = "done" /\ renderer[UNASSIGNED].kind = "dip"

\* the side of a pin line of the dual-row renderer: R is side 0, L side 1
LineSide(l) == IF l.dir = "R" THEN 0 ELSE 1

\* C10 as stated: for every N >= 1 the dual-row renderer puts N/2 pins on
\* each side, side = floor(index / (N/2)), the side-local index
\* index mod (N/2) is a non-negative integer, and y = -half_inner_height +
\* pin_spacing * side-local index with half_inner_height =
\* (ceil(N/2) - 1) * pin_spacing / 2.
C10_DipEvenSplit ==
    (DipDone /\ Len(Pins) >= 1) =>
        LET N == Len(Pins)
            hih2 == ((N + 1) \div 2 - 1) * pin_spacing
        IN  /\ Len(PinLines) = N
            /\ \A s \in {0, 1} :
                  2 * Cardinality({k \in 1..N : LineSide(PinLines[k]) = s}) = N
            /\ \A i \in 0..(N - 1) :
                  /\ LineSide(PinLines[i + 1]) = (2 * i) \div N
                  /\ \E idx \in 0..N :
                        /\ 2 * idx = (2 * i) % N
                        /\ 2 * (-PinLines[i + 1].y) = -hih2 + 2 * pin_spacing * idx

\* the x of the pin lines of the dual-row renderer's right edge
DipEdgeX == width_dip \div 2 + pin_length

\* C11 as stated: side 0 pins are on the right edge (x = +(half_width +
\* pin_length)) with direction R, side 1 pins on the left edge
\* (x = -(half_width + pin_length)) with direction L.
C11_SideZeroRight ==
    DipDone =>
        \A i \in 0..(Len(PinLines) - 1) :
            IF (2 * i) \div Len(PinLines) = 0
            THEN PinLines[i + 1].x = DipEdgeX /\ PinLines[i + 1].dir = "R"
            ELSE PinLines[i + 1].x = -DipEdgeX /\ PinLines[i + 1].dir = "L"

\* C11 amended: side 0 pins are on the left edge (x = -(half_width +
\* pin_length)) with direction R, side 1 pins on the right edge
\* (x = +(half_width + pin_length)) with direction L: the direction code of
\* a pin points from its end towards the body.
C11_SideZeroLeft ==
    DipDone =>
        /\ Len(PinLines) = Len(Pins)
        /\ \A i \in 0..(Len(PinLines) - 1) :
              IF (2 * i) \div Len(PinLines) = 0
              THEN PinLines[i + 1].x = -DipEdgeX /\ PinLines[i + 1].dir = "R"
              ELSE PinLines[i + 1].x = DipEdgeX /\ PinLines[i + 1].dir = "L"

\* four pins rendered, two on each edge
C11_Witness ==
    /\ DipDone
    /\ Len(PinLines) = 4
    /\ PinLines[1].x < 0 /\ PinLines[2].dir = "R"
    /\ PinLines[3].x > 0 /\ PinLines[4].dir = "L"

(* ------------------------ claims on Block.add -------------------------- *)

\* every block has been rendered after the calls of Block.add
BlocksDone == pc = "done" /\ \A b \in BlockIds : renderer[b].kind # "none"

\* how many of the pins handed to the renderer of block b are pin i
HandedTo(b, i) ==
    Cardinality({k \in 1..Len(renderer[b].pins) :
                    renderer[b].pins[k].position = Pins[i].position})

\* the pin lines of the output that are pin i's
LinesOfPin(i) ==
    Cardinality({k \in 1..Len(out) :
                    out[k].kind = "X" /\ out[k].position = Pins[i].position})

\* C12: after any sequence of Block.add calls, rendering all blocks hands
\* each pin only to the renderer of the block it was added to last, and the
\* whole output holds at most one pin line for that pin.
C12_LastAddWins ==
    BlocksDone =>
        \A i \in 1..Len(Pins) :
            /\ \A b \in BlockIds : b # Pins[i].block => HandedTo(b, i) = 0
            /\ LinesOfPin(i) <= 1

(* --------------------- claims on the start-up order -------------------- *)

\* C13: in the script's own order of statements the dataset is loaded before
\* anything reads it: under a quad-flat io_style, once create_io_block has
\* run the dataset is loaded, the IO renderer when constructed has total_pins
\* equal to the number of pins of the dataset, and a run only aborts on a
\* loaded dataset whose pin count is no multiple of 4.
C13_DatasetLoadedFirst ==
    QfpStyle =>
        /\ pc # "create" => cubefile.loaded
        /\ renderer[IO].kind # "none"
              => /\ renderer[IO].kind = "qfp"
                 /\ renderer[IO].total_pins = Len(Pins)
        /\ pc = "aborted" => cubefile.loaded /\ Len(Pins) % 4 # 0

(* ------------------- claims on the compact slots ----------------------- *)

\* the pins of the renderer on the side of pin k at lower positions
LowerOnSide(k) ==
    {j \in 1..Len(QfpPins) :
        /\ TrueSide(QfpPins[j]) = TrueSide(QfpPins[k])
        /\ QfpPins[j].position < QfpPins[k].position}

\* C14: in compact mode position_on_side is 0-based: the lowest-position pin
\* of every populated side has slot 0, and on a side whose pins are one run
\* of consecutive positions the pins have slots 0 .. k-1.
C14_CompactZeroBased ==
    (QfpDone /\ renderer[IO].mode = COMPACT) =>
        \A k \in 1..Len(QfpPins) :
            /\ LowerOnSide(k) = {} => QfpPins[k].position_on_side = 0
            /\ (\A j \in LowerOnSide(k) :
                    QfpPins[k].position - QfpPins[j].position <= Cardinality(LowerOnSide(k)))
                  => QfpPins[k].position_on_side = Cardinality(LowerOnSide(k))

====
